---- MODULE Spec2Model ----
(***************************************************************************)
(* Model of geophys_utils/netcdf_converter/aseg_gdf_utils.py: the ASEG-GDF *)
(* format-string codec (decode_aseg_gdf_format, aseg_gdf_format2dtype,     *)
(* variable2aseg_gdf_format, fix_field_precision).                         *)
(*                                                                         *)
(* Strings are sequences of one-character strings.  Python values whose    *)
(* type varies (None / int / str) are tagged records.                      *)
(***************************************************************************)
EXTENDS Integers, Sequences, FiniteSets, TLC

VARIABLES
    sigFigs,          \* the module-level table SIG_FIGS
    specifier,        \* the format string a caller holds
    array_variable,   \* the array a caller holds
    call,             \* the call made: function name and arguments
    ret,              \* its outcome: the value returned or the exception raised
    results           \* what the caller has kept of its calls of
                      \* variable2aseg_gdf_format: for each decimal_places,
                      \* the number of calls and the outcome of the latest

vars == <<sigFigs, specifier, array_variable, call, ret, results>>

(***************************************************************************)
(* Bounds of the model                                                     *)
(***************************************************************************)
\* longest format string enumerated exhaustively over Alphabet
MaxLen == 4
\* longest array enumerated exhaustively over IntCore / FloatCore
MaxElems == 2
\* largest fractional_digits / decimal_places a caller passes
MaxFractionalDigits == 2

(***************************************************************************)
(* Python values                                                           *)
(***************************************************************************)
PyNone == [t |-> "None"]
PyInt(n) == [t |-> "int", v |-> n]
PyStr(s) == [t |-> "str", v |-> s]

Returned(fields) == [status |-> "return", value |-> fields]
Raised(exc, msg) == [status |-> "raise", exc |-> exc, msg |-> msg]

\* the statements K that follow a call: an exception raised by the call
\* propagates, a value returned is handed on
Then(r, K(_)) == IF r.status = "raise" THEN r ELSE K(r.value)

(***************************************************************************)
(* Characters and character classes of the regular expressions             *)
(***************************************************************************)
DigitChars == <<"0", "1", "2", "3", "4", "5", "6", "7", "8", "9">>

\* \d
IsDigit(c) == \E i \in 1..10 : DigitChars[i] = c

Letters == {"A", "D", "E", "F", "I", "X", "a", "d", "e", "f", "i", "x"}

\* \w : letters, digits and the underscore
IsWord(c) == IsDigit(c) \/ c \in Letters \/ c = "_"

DigitVal(c) == (CHOOSE i \in 1..10 : DigitChars[i] = c) - 1

\* str.upper() on one character
Upper(c) ==
    CASE c = "a" -> "A"
      [] c = "d" -> "D"
      [] c = "e" -> "E"
      [] c = "f" -> "F"
      [] c = "i" -> "I"
      [] c = "x" -> "X"
      [] OTHER -> c

\* int(s) for a non-empty string of decimal digits
RECURSIVE StrToInt(_)
StrToInt(s) ==
    IF s = <<>> THEN 0
    ELSE 10 * StrToInt(SubSeq(s, 1, Len(s) - 1)) + DigitVal(s[Len(s)])

\* '{}'.format(n) for an integer n
RECURSIVE NatToStr(_)
NatToStr(n) ==
    IF n < 10 THEN <<DigitChars[n + 1]>>
    ELSE NatToStr(n \div 10) \o <<DigitChars[(n % 10) + 1]>>

IntToStr(n) == IF n < 0 THEN <<"-">> \o NatToStr(0 - n) ELSE NatToStr(n)

\* length of the longest run of characters satisfying a class, from position p
RECURSIVE DigitRun(_, _)
DigitRun(s, p) ==
    IF p <= Len(s) /\ IsDigit(s[p]) THEN 1 + DigitRun(s, p + 1) ELSE 0

RECURSIVE DotRun(_, _)
DotRun(s, p) ==
    IF p <= Len(s) /\ s[p] = "." THEN 1 + DotRun(s, p + 1) ELSE 0

(***************************************************************************)
(* re.match('(\d+)*(\w)(\d+)\.*(\d+)*', s)                                 *)
(*                                                                         *)
(* The match is anchored at the start only.  Group 1 is greedy and gives   *)
(* digits back one at a time; whether the rest matches depends only on the *)
(* number k of characters group 1 keeps: s[k+1] must be a \w character and *)
(* s[k+2] a digit.  Everything after that is greedy and cannot fail.       *)
(***************************************************************************)
RestMatches(s, k) ==
    /\ k + 2 <= Len(s)
    /\ IsWord(s[k + 1])
    /\ IsDigit(s[k + 2])

FormatMatchExists(s) == \E k \in 0..DigitRun(s, 1) : RestMatches(s, k)

\* the k the backtracking engine settles on: the largest one that works
FormatMatchK(s) ==
    CHOOSE k \in 0..DigitRun(s, 1) :
        /\ RestMatches(s, k)
        /\ \A j \in (k + 1)..DigitRun(s, 1) : ~RestMatches(s, j)

\* match.group(1..4), group 1 keeping k characters, group 3 ending at e3, the
\* dots at ed and group 4 at e4; an optional group that did not take part is
\* None
Groups(s, k, e3, ed, e4) ==
    [g1 |-> IF k = 0 THEN PyNone ELSE PyStr(SubSeq(s, 1, k)),
     g2 |-> s[k + 1],
     g3 |-> SubSeq(s, k + 2, e3),
     g4 |-> IF e4 = ed THEN PyNone ELSE PyStr(SubSeq(s, ed + 1, e4))]

GroupsAfterDots(s, k, e3, ed) == Groups(s, k, e3, ed, ed + DigitRun(s, ed + 1))

GroupsAfterDigits(s, k, e3) == GroupsAfterDots(s, k, e3, e3 + DotRun(s, e3 + 1))

GroupsAt(s, k) == GroupsAfterDigits(s, k, k + 1 + DigitRun(s, k + 2))

FormatMatchGroups(s) == GroupsAt(s, FormatMatchK(s))

(***************************************************************************)
(* decode_aseg_gdf_format(aseg_gdf_format)                                 *)
(***************************************************************************)
\* lines 61-73
DecodedGroups(m) ==
    Returned([columns |-> IF m.g1.t = "None" THEN PyInt(1) ELSE m.g1,
              aseg_dtype_code |-> Upper(m.g2),
              integer_digits |-> StrToInt(m.g3),
              fractional_digits |->
                  IF m.g4.t = "None" THEN 0 ELSE StrToInt(m.g4.v)])

decode_aseg_gdf_format(aseg_gdf_format) ==
    IF aseg_gdf_format = <<>>
    THEN Raised("BaseException", "No ASEG-GDF format string to decode")
    ELSE IF ~FormatMatchExists(aseg_gdf_format)
    THEN Raised("BaseException", "Invalid ASEG-GDF format string")
    ELSE DecodedGroups(FormatMatchGroups(aseg_gdf_format))

(***************************************************************************)
(* Module tables                                                           *)
(***************************************************************************)
\* SIG_FIGS: an OrderedDict, iterated in insertion order
SIG_FIGS ==
    << [dtype |-> "int8",    sig_figs |-> 2],
       [dtype |-> "int16",   sig_figs |-> 4],
       [dtype |-> "int32",   sig_figs |-> 10],
       [dtype |-> "int64",   sig_figs |-> 19],
       [dtype |-> "float32", sig_figs |-> 7],
       [dtype |-> "float64", sig_figs |-> 20] >>

\* test_dtype.startswith(prefix) for the dtype names of SIG_FIGS
startswith(test_dtype, prefix) ==
    \/ prefix = "int"   /\ test_dtype \in {"int8", "int16", "int32", "int64"}
    \/ prefix = "float" /\ test_dtype \in {"float32", "float64"}

\* the dtype variable before any assignment (dtype = None)
NoDtype == "None"

\* the first entry of SIG_FIGS among the candidates, None without candidates
FirstOf(fits) ==
    IF fits = {} THEN NoDtype
    ELSE sigFigs[CHOOSE i \in fits : \A j \in fits : i <= j].dtype

\* for test_dtype, sig_figs in SIG_FIGS.items(): if ... : dtype = test_dtype; break
FirstDtype(prefix, digits) ==
    FirstOf({i \in 1..Len(sigFigs) :
                /\ startswith(sigFigs[i].dtype, prefix)
                /\ sigFigs[i].sig_figs >= digits})

(***************************************************************************)
(* aseg_gdf_format2dtype(aseg_gdf_format)                                  *)
(***************************************************************************)
\* assert dtype, message
AssertDtype(dtype, message) ==
    IF dtype = NoDtype THEN Raised("AssertionError", message)
    ELSE Returned(dtype)

\* lines 90-104: the if / elif that scans SIG_FIGS; yields the dtype found,
\* or the assertion that failed
ScanDtype(aseg_dtype_code, integer_digits, fractional_digits) ==
    IF aseg_dtype_code = "I"
    THEN IF fractional_digits # 0
         THEN Raised("AssertionError",
                     "Integer format cannot be defined with fractional digits")
         ELSE AssertDtype(FirstDtype("int", integer_digits),
                          "Invalid integer length")
    ELSE IF aseg_dtype_code \in {"D", "E", "F"}
    THEN AssertDtype(FirstDtype("float", integer_digits + fractional_digits),
                     "Invalid floating point format")
    ELSE Returned(NoDtype)

\* StringDtype without the assertion on fractional digits
StringDtype_NoAssert(aseg_dtype_code, fractional_digits, dtype) ==
    IF aseg_dtype_code = "A"
    THEN Returned("str")
    ELSE Raised("BaseException", "Unhandled ASEG-GDF dtype code")

\* lines 106-111: the separate if / else on the 'A' code
StringDtype(aseg_dtype_code, fractional_digits, dtype) ==
    IF aseg_dtype_code = "A"
    THEN IF fractional_digits # 0
         THEN Raised("AssertionError",
                     "String format cannot be defined with fractional digits")
         ELSE Returned("str")
    ELSE Raised("BaseException", "Unhandled ASEG-GDF dtype code")

\* lines 86-119, on the decoded fields d
DtypeOfDecoded(d) ==
    Then(ScanDtype(d.aseg_dtype_code, d.integer_digits, d.fractional_digits),
         LAMBDA scanned :
    Then(StringDtype(d.aseg_dtype_code, d.fractional_digits, scanned),
         LAMBDA dtype :
    Returned([dtype |-> dtype,
              columns |-> d.columns,
              integer_digits |-> d.integer_digits,
              fractional_digits |-> d.fractional_digits])))

aseg_gdf_format2dtype(aseg_gdf_format) ==
    Then(decode_aseg_gdf_format(aseg_gdf_format), DtypeOfDecoded)

(***************************************************************************)
(* Numbers                                                                 *)
(*                                                                         *)
(* An element of an integer array is a two-limb integer [hi, lo] standing  *)
(* for hi * 2^16 + lo with 0 <= lo < 2^16, so that 64-bit values beyond    *)
(* 2^31 and their wrap-around on narrowing are computed exactly.           *)
(*                                                                         *)
(* An element of a float array is an integer number of quarters (the value *)
(* n stands for n / 4): every such value of the model is a float64, and    *)
(* float32 keeps 24 significant bits of it.                                *)
(***************************************************************************)
Base == 256 * 256

Wide(hi, lo) == [hi |-> hi, lo |-> lo]
WNorm(hi, lo) == [hi |-> hi + (lo \div Base), lo |-> lo % Base]
W(n) == WNorm(0, n)
WSub(a, b) == WNorm(a.hi - b.hi, a.lo - b.lo)
WAdd(a, b) == WNorm(a.hi + b.hi, a.lo + b.lo)
WNeg(a) == WSub(W(0), a)
WIsNeg(a) == a.hi < 0
WLess(a, b) == a.hi < b.hi \/ (a.hi = b.hi /\ a.lo < b.lo)
WTimes10(a) == WNorm(a.hi * 10, a.lo * 10)

Abs(n) == IF n < 0 THEN 0 - n ELSE n

RECURSIVE Pow10(_)
Pow10(d) == IF d <= 0 THEN 1 ELSE 10 * Pow10(d - 1)

RECURSIVE Pow2(_)
Pow2(d) == IF d <= 0 THEN 1 ELSE 2 * Pow2(d - 1)

\* floor(log2(n)) for n >= 1
RECURSIVE Log2Floor(_)
Log2Floor(n) == IF n <= 1 THEN 0 ELSE 1 + Log2Floor(n \div 2)

IntDtypes == {"int8", "int16", "int32", "int64"}
FloatDtypes == {"float32", "float64"}

\* two's-complement value of the low bits of x, modulo m
Wrap(x, m) == ((x + (m \div 2)) % m) - (m \div 2)

\* astype_int that keeps a value too large for int32 as it is
astype_int_NoWrap32(a, dtype) ==
    CASE dtype = "int8"  -> W(Wrap(a.lo, 256))
      [] dtype = "int16" -> W(Wrap(a.lo, Base))
      [] OTHER -> a

\* ndarray.astype(dtype) on one integer element: wrap-around modulo 2^width
astype_int(a, dtype) ==
    CASE dtype = "int8"  -> W(Wrap(a.lo, 256))
      [] dtype = "int16" -> W(Wrap(a.lo, Base))
      [] dtype = "int32" -> Wide(Wrap(a.hi, Base), a.lo)
      [] OTHER -> a

\* round n to a multiple of u, ties to the even multiple
RoundHalfEven(n, u) ==
    LET q == n \div u
        r == n % u
    IN  IF 2 * r < u THEN q * u
        ELSE IF 2 * r > u THEN (q + 1) * u
        ELSE IF q % 2 = 0 THEN q * u ELSE (q + 1) * u

\* ndarray.astype(dtype) on one float element: float32 has a 24-bit significand
astype_float(n, dtype) ==
    IF dtype = "float32" /\ n # 0 /\ Log2Floor(Abs(n)) > 23
    THEN RoundHalfEven(n, Pow2(Log2Floor(Abs(n)) - 23))
    ELSE n

astype(x, from_dtype, dtype) ==
    IF from_dtype \in IntDtypes THEN astype_int(x, dtype)
    ELSE astype_float(x, dtype)

\* np.abs on one element of an array of the given dtype (it wraps on the
\* most negative value of an integer dtype)
np_abs(x, dtype) ==
    IF dtype \in IntDtypes
    THEN IF WIsNeg(x) THEN astype_int(WNeg(x), dtype) ELSE x
    ELSE Abs(x)

IsNegative(x, dtype) == IF dtype \in IntDtypes THEN WIsNeg(x) ELSE x < 0

Less(x, y, dtype) == IF dtype \in IntDtypes THEN WLess(x, y) ELSE x < y

Larger(x, y, dtype) == IF Less(x, y, dtype) THEN y ELSE x

\* np.nanmax of a non-empty sequence of elements
RECURSIVE np_nanmax(_, _)
np_nanmax(xs, dtype) ==
    IF Len(xs) = 1 THEN xs[1]
    ELSE Larger(xs[1], np_nanmax(Tail(xs), dtype), dtype)

\* ceil(log10(m + 1.0)) for m >= 0: the least d with 10^d >= m + 1
RECURSIVE WCeilLog10(_, _, _)
WCeilLog10(m1, d, p) ==
    IF ~WLess(p, m1) THEN d ELSE WCeilLog10(m1, d + 1, WTimes10(p))

\* the same for m quarters: the least d with 4 * 10^d >= m + 4, that is
\* with 10^d >= ceil((m + 4) / 4)
RECURSIVE QCeilLog10(_, _, _)
QCeilLog10(m4, d, p) ==
    IF p >= (m4 + 3) \div 4 THEN d ELSE QCeilLog10(m4, d + 1, 10 * p)

\* ceil(log10(m + 1.0)); math.log10 raises ValueError on an argument <= 0
CeilLog10Plus1(m, dtype) ==
    IF dtype \in IntDtypes
    THEN IF WLess(WAdd(m, W(1)), W(1))
         THEN Raised("ValueError", "math domain error")
         ELSE Returned(WCeilLog10(WAdd(m, W(1)), 0, W(1)))
    ELSE Returned(QCeilLog10(m + 4, 0, 1))

\* ceil(log10(np.nanmax(np.abs(data_array)) + 1.0))
integer_digits_of(data, dtype) ==
    CeilLog10Plus1(
        np_nanmax([i \in 1..Len(data) |-> np_abs(data[i], dtype)], dtype),
        dtype)

Min(a, b) == IF a <= b THEN a ELSE b

(***************************************************************************)
(* variable2aseg_gdf_format(array_variable, decimal_places)                *)
(*                                                                         *)
(* An array is [dtype, shape, data, masked, fill_value, attr]: data is the *)
(* flattened element sequence (for a masked array, its .data), attr the    *)
(* aseg_gdf_format attribute (PyNone when the object has none).            *)
(***************************************************************************)
ASEG_DTYPE_CODE_MAPPING ==
    [dtype \in {"int16", "int32", "int64", "float32", "float64", "str"} |->
        CASE dtype \in {"int16", "int32", "int64"} -> "I"
          [] dtype = "float32" -> "F"
          [] dtype = "float64" -> "D"
          [] dtype = "str" -> "A"]

\* dict.get(dtype): None for a key that is absent
CodeOf(dtype) ==
    IF dtype \in DOMAIN ASEG_DTYPE_CODE_MAPPING
    THEN ASEG_DTYPE_CODE_MAPPING[dtype] ELSE NoDtype

\* SIG_FIGS[dtype]
HasSigFigs(dtype) == \E i \in 1..Len(sigFigs) : sigFigs[i].dtype = dtype
SigFigsOf(dtype) ==
    sigFigs[CHOOSE i \in 1..Len(sigFigs) : sigFigs[i].dtype = dtype].sig_figs

\* '{' + ':{:d}.{:d}f'.format(width, precision) + '}'
NumberTemplate(width, precision) ==
    <<"{", ":">> \o IntToStr(width) \o <<".">> \o IntToStr(precision)
    \o <<"f", "}">>

\* '{' + ':{:d}s'.format(width) + '}'
StringTemplate(width) == <<"{", ":">> \o IntToStr(width) \o <<"s", "}">>

\* FloatFractionalDigits that consults the declared specifier before
\* decimal_places
FloatFractionalDigits_DeclaredFirst(a, decimal_places, sig_figs, integer_digits) ==
    IF a.attr.t # "None"
    THEN Then(decode_aseg_gdf_format(a.attr.v),
              LAMBDA d : Returned(Min(d.fractional_digits,
                                      sig_figs - integer_digits + 1)))
    ELSE IF decimal_places.t # "None"
    THEN Returned(Min(decimal_places.v, sig_figs - integer_digits))
    ELSE Returned(sig_figs - integer_digits + 1)

\* lines 163-172: fractional digits of a float array
FloatFractionalDigits(a, decimal_places, sig_figs, integer_digits) ==
    IF decimal_places.t # "None"
    THEN Returned(Min(decimal_places.v, sig_figs - integer_digits))
    ELSE IF a.attr.t # "None"
    THEN Then(decode_aseg_gdf_format(a.attr.v),
              LAMBDA d : Returned(Min(d.fractional_digits,
                                      sig_figs - integer_digits + 1)))
    ELSE Returned(sig_figs - integer_digits + 1)

\* lines 188-190: the column count goes in front when there are several
ColumnPrefix(columns) == IF columns > 1 THEN IntToStr(columns) ELSE <<>>

\* lines 157-192, once dtype, columns, sign_width and integer_digits are known
FormatForCode(a, decimal_places, columns, sig_figs, sign_width, integer_digits, aseg_dtype_code) ==
    IF aseg_dtype_code = "I"
    THEN Returned([aseg_gdf_format |->
                       ColumnPrefix(columns) \o <<"I">>
                       \o IntToStr(integer_digits),
                   dtype |-> a.dtype,
                   columns |-> columns,
                   integer_digits |-> integer_digits,
                   fractional_digits |-> 0,
                   python_format |->
                       NumberTemplate(sign_width + integer_digits, 0)])
    ELSE IF aseg_dtype_code \in {"F", "D"}
    THEN Then(FloatFractionalDigits(a, decimal_places, sig_figs, integer_digits),
              LAMBDA fractional_digits :
         Returned([aseg_gdf_format |->
                       ColumnPrefix(columns) \o <<aseg_dtype_code>>
                       \o IntToStr(integer_digits) \o <<".">>
                       \o IntToStr(fractional_digits),
                   dtype |-> a.dtype,
                   columns |-> columns,
                   integer_digits |-> integer_digits,
                   fractional_digits |-> fractional_digits,
                   python_format |->
                       NumberTemplate(sign_width + integer_digits
                                      + fractional_digits + 1,
                                      fractional_digits)]))
    ELSE \* 'A': aseg_gdf_format is never assigned on this path, and
         \* lines 190 / 192 read it
         Raised("UnboundLocalError", "aseg_gdf_format")

\* line 151
sign_width_of(a) ==
    IF \E i \in 1..Len(a.data) : IsNegative(a.data[i], a.dtype) THEN 1 ELSE 0

variable2aseg_gdf_format(a, decimal_places) ==
    IF Len(a.shape) \notin {1, 2}
    THEN Raised("BaseException",
                "Unable to handle arrays with dimensionality > 3")
    ELSE IF ~HasSigFigs(a.dtype)
    THEN Raised("KeyError", a.dtype)
    ELSE Then(integer_digits_of(a.data, a.dtype),
              LAMBDA integer_digits :
         IF CodeOf(a.dtype) = NoDtype
         THEN Raised("AssertionError", "Unhandled dtype")
         ELSE FormatForCode(a, decimal_places,
                            IF Len(a.shape) = 1 THEN 1 ELSE a.shape[2],
                            SigFigsOf(a.dtype) + 1, sign_width_of(a),
                            integer_digits, CodeOf(a.dtype)))

(***************************************************************************)
(* Fill values                                                             *)
(*                                                                         *)
(* A fill value is PyNone, an integer [t |-> "int", v |-> two-limb value]  *)
(* or a float [t |-> "float", v |-> decimal], the decimal being            *)
(* [neg, ip, fr]: sign, integer part and hundredths.  Every quarter is     *)
(* such a decimal, and so is every truncation of its text.                 *)
(***************************************************************************)
Dec(neg, ip, fr) == [neg |-> neg, ip |-> ip, fr |-> fr]

\* the float n / 4 as a decimal
DecOfQ(n) == Dec(n < 0, Abs(n) \div 4, 25 * (Abs(n) % 4))

\* numeric equality of two floats (-0.0 == 0.0)
DecEq(d, e) ==
    /\ d.ip = e.ip
    /\ d.fr = e.fr
    /\ (d.neg = e.neg \/ (d.ip = 0 /\ d.fr = 0))

IntFill(w) == [t |-> "int", v |-> w]
FloatFill(d) == [t |-> "float", v |-> d]

\* element == fill_value
EqualsFill(x, fill_value, dtype) ==
    IF dtype \in IntDtypes THEN x = fill_value.v
    ELSE DecEq(DecOfQ(x), fill_value.v)

\* data_array[i] as a scalar of the kind of fill values
AsFill(x, dtype) ==
    IF dtype \in IntDtypes THEN IntFill(x) ELSE FloatFill(DecOfQ(x))

\* the digits after the point in str() of a float: the shortest that
\* round-trip, at least one
FractionStr(fr) ==
    IF fr % 10 = 0 THEN <<DigitChars[(fr \div 10) + 1]>>
    ELSE <<DigitChars[(fr \div 10) + 1], DigitChars[(fr % 10) + 1]>>

\* the value of a string of at most two digits after the point, in hundredths
FractionVal(s) ==
    IF s = <<>> THEN 0
    ELSE IF Len(s) = 1 THEN 10 * DigitVal(s[1])
    ELSE 10 * DigitVal(s[1]) + DigitVal(s[2])

LastChars(s, n) == SubSeq(s, Len(s) - Min(n, Len(s)) + 1, Len(s))
FirstChars(s, n) == SubSeq(s, 1, Min(n, Len(s)))

(***************************************************************************)
(* lines 266-273: truncating the fill value to integer_digits.fractional_  *)
(* digits.  The search '(-?)\d*?(\d{0,i}\.\d{0,f})' in str(fill_value)    *)
(* matches at the start of '[-]digits.digits': the lazy \d*? skips the     *)
(* leading digits beyond the last i.  Any failure leaves the fill value    *)
(* as it was: str() of an integer has no '.', a negative i or f makes the  *)
(* braces literal text, float('.') is a ValueError, and the assertion      *)
(* fails when the truncated value equals an unmasked element.              *)
(***************************************************************************)
TruncatedText(d, integer_digits, fractional_digits) ==
    [sign |-> d.neg,
     ip |-> LastChars(NatToStr(d.ip), integer_digits),
     fr |-> FirstChars(FractionStr(d.fr), fractional_digits)]

TruncationFails(fill_value, integer_digits, fractional_digits) ==
    \/ fill_value.t = "int"
    \/ integer_digits < 0
    \/ fractional_digits < 0
    \/ LET g == TruncatedText(fill_value.v, integer_digits, fractional_digits)
       IN  g.ip = <<>> /\ g.fr = <<>>

truncated_fill_value(fill_value, integer_digits, fractional_digits) ==
    LET g == TruncatedText(fill_value.v, integer_digits, fractional_digits)
    IN  FloatFill(Dec(g.sign, StrToInt(g.ip), FractionVal(g.fr)))

\* data_array[~no_data_mask] == value, anywhere
EqualsUnmasked(a, no_data_mask, value) ==
    \E i \in 1..Len(a.data) :
        ~no_data_mask[i] /\ EqualsFill(a.data[i], value, a.dtype)

\* UnlessAmbiguous without the assertion: the truncated value always
\* replaces the fill value
UnlessAmbiguous_NoAssert(a, no_data_mask, fill_value, truncated) ==
    truncated

\* lines 270-271: the truncated value replaces the fill value unless it
\* equals an unmasked element
UnlessAmbiguous(a, no_data_mask, fill_value, truncated) ==
    IF EqualsUnmasked(a, no_data_mask, truncated) THEN fill_value
    ELSE truncated

TruncateFill(a, no_data_mask, fill_value, integer_digits, fractional_digits) ==
    IF TruncationFails(fill_value, integer_digits, fractional_digits)
    THEN fill_value
    ELSE UnlessAmbiguous(a, no_data_mask, fill_value,
             truncated_fill_value(fill_value, integer_digits,
                                  fractional_digits))

(***************************************************************************)
(* fix_field_precision(array_variable, current_dtype, fractional_digits,   *)
(*                     fill_value)                                         *)
(***************************************************************************)
DTYPE_REDUCTION_LISTS ==
    << <<"int64", "int32", "int16", "int8">>, <<"float64", "float32">> >>

\* list.index(x), 0-based, for x in the list
IndexOf(list, x) == (CHOOSE i \in 1..Len(list) : list[i] = x) - 1

\* SmallerDtypes without the reversal: dtype_reduction_list[current_dtype_index+1:]
SmallerDtypes_WidestFirst(dtype_reduction_list, current_dtype_index) ==
    [i \in 1..(Len(dtype_reduction_list) - current_dtype_index - 1) |->
        dtype_reduction_list[current_dtype_index + 1 + i]]

\* dtype_reduction_list[:current_dtype_index:-1]: from the last entry down to
\* the one after current_dtype
SmallerDtypes(dtype_reduction_list, current_dtype_index) ==
    [i \in 1..(Len(dtype_reduction_list) - current_dtype_index - 1) |->
        dtype_reduction_list[Len(dtype_reduction_list) + 1 - i]]

\* DifferenceFound with > in place of >=
DifferenceFound_Strict(x, y, fractional_digits, dtype) ==
    IF dtype \in IntDtypes
    THEN LET d == WSub(x, y)
             m == IF WIsNeg(d) THEN WNeg(d) ELSE d
         IN  WLess(W(Pow10(0 - fractional_digits)), m)
    ELSE IF fractional_digits >= 0
         THEN Abs(x - y) * Pow10(fractional_digits) > 4
         ELSE Abs(x - y) > 4 * Pow10(0 - fractional_digits)

\* np.abs(x - y) >= pow(10, -fractional_digits) for one element
DifferenceFound(x, y, fractional_digits, dtype) ==
    IF dtype \in IntDtypes
    THEN LET d == WSub(x, y)
             m == IF WIsNeg(d) THEN WNeg(d) ELSE d
         IN  \* an integer m >= 10^-f: m >= 1 for f >= 0, m >= 10^|f| otherwise
             ~WLess(m, W(Pow10(0 - fractional_digits)))
    ELSE \* |x - y| / 4 >= 10^-f
         IF fractional_digits >= 0
         THEN Abs(x - y) * Pow10(fractional_digits) >= 4
         ELSE Abs(x - y) >= 4 * Pow10(0 - fractional_digits)

\* data_array.astype(smaller_dtype): a plain array, without attributes
smaller_array_of(a, smaller_dtype) ==
    [dtype |-> smaller_dtype,
     shape |-> a.shape,
     data |-> [i \in 1..Len(a.data) |-> astype(a.data[i], a.dtype, smaller_dtype)],
     masked |-> FALSE,
     mask |-> [i \in 1..Len(a.data) |-> FALSE],
     fill_value |-> PyNone,
     attr |-> PyNone]

\* line 247: some element differs by the precision or more
DifferencesFound(a, smaller_dtype, fractional_digits) ==
    \E i \in 1..Len(a.data) :
        DifferenceFound(a.data[i], smaller_array_of(a, smaller_dtype).data[i],
                        fractional_digits, a.dtype)

\* lines 229-230
no_data_mask_of(a, fill_value) ==
    [i \in 1..Len(a.data) |-> EqualsFill(a.data[i], fill_value, a.dtype)]

\* line 256: data_array[no_data_mask][0]
reduced_precision_fill_value(a, no_data_mask) ==
    AsFill(a.data[CHOOSE i \in 1..Len(a.data) :
                     /\ no_data_mask[i]
                     /\ \A j \in 1..(i - 1) : ~no_data_mask[j]], a.dtype)

AnyMasked(no_data_mask) == \E i \in 1..Len(no_data_mask) : no_data_mask[i]

\* line 259: the reduced precision fill value is ambiguous
FillIsAmbiguous(a, no_data_mask) ==
    /\ AnyMasked(no_data_mask)
    /\ EqualsUnmasked(a, no_data_mask,
                      reduced_precision_fill_value(a, no_data_mask))

Exhausted == [status |-> "exhausted"]

\* `continue`: on to the next smaller dtype, with the loop's fractional_digits
Continue(fractional_digits) ==
    [status |-> "continue", fractional_digits |-> fractional_digits]

\* lines 253-275: the fill value of an accepted dtype, given the mask
ReconcileMasked(a, spec, fill_value, no_data_mask) ==
    IF FillIsAmbiguous(a, no_data_mask)
    THEN Continue(spec.fractional_digits)
    ELSE Returned(
         [t |-> "tuple", spec |-> spec,
          fill_value |->
             TruncateFill(a, no_data_mask,
                 IF AnyMasked(no_data_mask)
                 THEN reduced_precision_fill_value(a, no_data_mask)
                 ELSE fill_value,
                 spec.integer_digits, spec.fractional_digits)])

\* lines 253-275
Reconcile(a, spec, fill_value) ==
    IF fill_value.t = "None"
    THEN Returned([t |-> "tuple", spec |-> spec, fill_value |-> fill_value])
    ELSE ReconcileMasked(a, spec, fill_value, no_data_mask_of(a, fill_value))

\* lines 234-275: the body of the loop for one smaller_dtype
TryDtype(a, smaller_dtype, fractional_digits, fill_value) ==
    IF DifferencesFound(a, smaller_dtype, fractional_digits)
    THEN Continue(fractional_digits)
    ELSE Then(variable2aseg_gdf_format(smaller_array_of(a, smaller_dtype),
                                       PyInt(fractional_digits)),
              LAMBDA spec : Reconcile(a, spec, fill_value))

\* lines 233-275: the loop over the smaller dtypes, from candidate i on;
\* fractional_digits is the loop's current value
RECURSIVE TrySmaller(_, _, _, _, _)

\* after the body has run for candidate i with outcome r
AfterDtype(r, a, candidates, i, fill_value) ==
    IF r.status = "continue"
    THEN TrySmaller(a, candidates, i + 1, r.fractional_digits, fill_value)
    ELSE r

TrySmaller(a, candidates, i, fractional_digits, fill_value) ==
    IF i > Len(candidates) THEN Exhausted
    ELSE AfterDtype(TryDtype(a, candidates[i], fractional_digits, fill_value),
                    a, candidates, i, fill_value)

\* line 278: except ValueError: continue
ExceptValueError(r) ==
    IF r.status = "raise" /\ r.exc = "ValueError" THEN Exhausted ELSE r

\* lines 219-279: the try block for one reduction list.  A ValueError
\* (current_dtype not in the list, or raised inside the block) is caught and
\* the loop over the lists continues, as it does when no smaller dtype is left.
TryList(a, dtype_reduction_list, current_dtype, fractional_digits, fill_value) ==
    IF \A i \in 1..Len(dtype_reduction_list) :
           dtype_reduction_list[i] # current_dtype
    THEN Exhausted
    ELSE ExceptValueError(
             TrySmaller(a,
                 SmallerDtypes(dtype_reduction_list,
                               IndexOf(dtype_reduction_list, current_dtype)),
                 1, fractional_digits,
                 IF a.masked THEN a.fill_value ELSE fill_value))

\* lines 218-279: the loop over the reduction lists, from list li on;
\* falling off the end returns None
RECURSIVE FixFrom(_, _, _, _, _)

AfterList(r, a, li, current_dtype, fractional_digits, fill_value) ==
    IF r.status = "exhausted"
    THEN FixFrom(a, li + 1, current_dtype, fractional_digits, fill_value)
    ELSE r

FixFrom(a, li, current_dtype, fractional_digits, fill_value) ==
    IF li > Len(DTYPE_REDUCTION_LISTS) THEN Returned(PyNone)
    ELSE AfterList(TryList(a, DTYPE_REDUCTION_LISTS[li], current_dtype,
                           fractional_digits, fill_value),
                   a, li, current_dtype, fractional_digits, fill_value)

fix_field_precision(a, current_dtype, fractional_digits, fill_value) ==
    FixFrom(a, 1, current_dtype, fractional_digits, fill_value)

(***************************************************************************)
(* Inputs                                                                  *)
(***************************************************************************)
Alphabet == {"1", "2", "3", "F", "f", ".", "_"}

ExampleFormats ==
    { <<"3", "F", "1", "0", ".", "4">>, <<"I", "5">>, <<"A", "4", "0">>,
      <<"F", "1", "0", ".", "4">>, <<"1", "2", "F", "1", "0">>,
      <<"i", "0", "5">>, <<"D", "2", "0", ".", "1", "0">> }

\* every string of at most MaxLen characters over Alphabet, and the examples
FormatStrings ==
    UNION {[1..n -> Alphabet] : n \in 0..MaxLen} \cup ExampleFormats

\* '{columns}{code}{integer_digits}.{fractional_digits}' as a caller writes it;
\* columns = 0 stands for no column prefix, fractional_digits = -1 for no '.'
WriteFormat(columns, code, integer_digits, fractional_digits) ==
    (IF columns = 0 THEN <<>> ELSE NatToStr(columns))
    \o <<code>> \o NatToStr(integer_digits)
    \o (IF fractional_digits < 0 THEN <<>>
        ELSE <<".">> \o NatToStr(fractional_digits))

DescriptorCodes == {"I", "i", "F", "f", "D", "E", "A", "a", "X", "_"}
DescriptorDigits == {0, 1, 2, 3, 4, 5, 7, 8, 10, 11, 19, 20, 21, 40}
DescriptorFractions == {-1, 0, 1, 2, 4, 13}
DescriptorColumns == {0, 1, 3}

DescriptorFormats ==
    {WriteFormat(c, code, id, fd) :
        c \in DescriptorColumns, code \in DescriptorCodes,
        id \in DescriptorDigits, fd \in DescriptorFractions}

\* integer elements: 0, 1, -1, 200, -32768, 100000 and 3000000000
IntCore ==
    {W(0), W(1), W(0 - 1), W(200), W(0 - 32768), W(100000), Wide(45776, 24064)}

\* float elements, in quarters: 0.0, 1.25, -4.5, 4194304.0, 4194304.25,
\* -4194304.75, 16777217.0 and 16777219.0
FloatCore ==
    {0, 5, 0 - 18, Pow2(24), Pow2(24) + 1, 0 - (Pow2(24) + 3), Pow2(26) + 4,
     Pow2(26) + 12}

\* the arrays of the scenarios: [1, 2], [100000, 200000], [3000000000],
\* [1.25, -4.5, 100.0], [-9999.0, 12.75], and [134217728.0], a float32 value
\* of nine integer digits; [9], [10], [99] and [100] for the digit counts
ExampleIntData ==
    { <<W(1), W(2)>>, <<W(100000), W(200000)>>, <<Wide(45776, 24064)>>,
      <<W(9)>>, <<W(10)>>, <<W(99)>>, <<W(100)>> }
ExampleFloatData ==
    { <<5, 0 - 18, 400>>, <<0 - 39996, 51>>, <<Pow2(29)>> }

IntData == UNION {[1..n -> IntCore] : n \in 1..MaxElems} \cup ExampleIntData
FloatData ==
    UNION {[1..n -> FloatCore] : n \in 1..MaxElems} \cup ExampleFloatData

\* every element is a value of the dtype
Fits(data, dtype) ==
    \A i \in 1..Len(data) : astype(data[i], dtype, dtype) = data[i]

IntFills == {IntFill(W(0 - 1)), IntFill(W(0 - 9999))}
FloatFills ==
    {FloatFill(DecOfQ(0 - 39996)), FloatFill(DecOfQ(Pow2(24)))}

FillsOf(dtype) == IF dtype \in IntDtypes THEN IntFills ELSE FloatFills

\* the masks of the masked arrays: nothing masked, or the first element
Masks(n) == {[i \in 1..n |-> FALSE], [i \in 1..n |-> i = 1]}

\* 1-D and one-row 2-D arrays
Shapes(n) == {<<n>>, <<1, n>>}

PlainArray(dtype, shape, data) ==
    [dtype |-> dtype, shape |-> shape, data |-> data, masked |-> FALSE,
     mask |-> [i \in 1..Len(data) |-> FALSE], fill_value |-> PyNone,
     attr |-> PyNone]

MaskedArray(dtype, shape, data, mask, fill_value) ==
    [dtype |-> dtype, shape |-> shape, data |-> data, masked |-> TRUE,
     mask |-> mask, fill_value |-> fill_value, attr |-> PyNone]

ArraysOver(dtypes, datas) ==
    {PlainArray(dtype, shape, data) :
        dtype \in dtypes, shape \in UNION {Shapes(n) : n \in 1..(MaxElems + 1)},
        data \in datas}

WellShaped(a) == a.shape[Len(a.shape)] = Len(a.data) /\ Fits(a.data, a.dtype)

PlainArrays ==
    {a \in ArraysOver(IntDtypes, IntData) \cup ArraysOver(FloatDtypes, FloatData) :
        WellShaped(a)}

MaskedArrays ==
    UNION {{MaskedArray(a.dtype, a.shape, a.data, mask, fill_value) :
               mask \in Masks(Len(a.data)), fill_value \in FillsOf(a.dtype)} :
           a \in PlainArrays}

Arrays == PlainArrays \cup MaskedArrays

\* float arrays that carry an aseg_gdf_format attribute (netCDF variables):
\* a declared specifier with four, one or no fractional digits, or one that
\* does not decode
DeclaredFormats ==
    { <<"F", "1", "0", ".", "4">>, <<"D", "8", ".", "1">>, <<"E", "7">>,
      <<"F">> }

DeclaredArrays ==
    {[a EXCEPT !.attr = PyStr(f)] :
        a \in {p \in PlainArrays : p.dtype \in FloatDtypes},
        f \in DeclaredFormats}

\* text arrays: str(array_variable.dtype) is '<U3' or 'object' for numpy text,
\* and 'str' for an object that says so; with and without a declared width
TextDtypes == {"<U3", "object", "str"}

TextArrays ==
    {[dtype |-> dtype, shape |-> <<Len(data)>>, data |-> data,
      masked |-> FALSE, mask |-> [i \in 1..Len(data) |-> FALSE],
      fill_value |-> PyNone, attr |-> attr] :
        dtype \in TextDtypes,
        data \in { << <<"a", "b", "c">> >>, << <<"a">>, <<"b", "c">> >> },
        attr \in {PyNone, PyStr(<<"A", "1", "0">>)}}

\* the arrays handed to variable2aseg_gdf_format
ArrayVariables == Arrays \cup DeclaredArrays \cup TextArrays

\* the arrays of a caller that makes several calls: the float64 scenario
\* with and without a declared specifier, a masked float64 array, a float32
\* array, and int64, int16 and int8 arrays
CodecArrays ==
    { PlainArray("float64", <<3>>, <<5, 0 - 18, 400>>),
      [PlainArray("float64", <<3>>, <<5, 0 - 18, 400>>)
          EXCEPT !.attr = PyStr(<<"F", "1", "0", ".", "4">>)],
      MaskedArray("float64", <<2>>, <<0 - 39996, 51>>, <<TRUE, FALSE>>,
                  FloatFill(DecOfQ(0 - 39996))),
      PlainArray("float32", <<1>>, <<Pow2(29)>>),
      PlainArray("int64", <<2>>, <<W(100000), W(200000)>>),
      PlainArray("int64", <<1>>, <<W(0)>>),
      PlainArray("int16", <<1, 1>>, <<W(9)>>),
      PlainArray("int8", <<2>>, <<W(1), W(2)>>) }

\* the format strings such a caller parses and resolves
CodecFormats == { <<"I", "5">>, <<"3", "F", "1", "0", ".", "4">> }

\* decimal_places: None, or a number of decimal places to respect
DecimalPlaces == {PyNone} \cup {PyInt(n) : n \in 0..MaxFractionalDigits}

\* current_dtype: a dtype of the array's family, or one in no reduction list
CurrentDtypes(a) ==
    (IF a.dtype \in IntDtypes THEN IntDtypes ELSE FloatDtypes) \cup {"str"}

DefaultArray == PlainArray("int64", <<1>>, <<W(0)>>)

(***************************************************************************)
(* Actions: one call of a codec function on the inputs the caller holds    *)
(***************************************************************************)
Idle == [fn |-> "none"]

DecodeCall ==
    /\ call = Idle
    /\ call' = [fn |-> "decode_aseg_gdf_format"]
    /\ ret' = decode_aseg_gdf_format(specifier)
    /\ UNCHANGED <<sigFigs, specifier, array_variable, results>>

Format2DtypeCall ==
    /\ call = Idle
    /\ call' = [fn |-> "aseg_gdf_format2dtype"]
    /\ ret' = aseg_gdf_format2dtype(specifier)
    /\ UNCHANGED <<sigFigs, specifier, array_variable, results>>

\* the caller's record of a call of variable2aseg_gdf_format; calls beyond
\* the second are counted as the second
Kept(decimal_places, outcome) ==
    [results EXCEPT ![decimal_places] =
        [calls |-> Min(results[decimal_places].calls + 1, 2),
         outcome |-> outcome]]

\* Variable2FormatCall that also stores the specifier it returns in the
\* array's aseg_gdf_format attribute
Variable2FormatCall_StoresFormat ==
    /\ call = Idle
    /\ \E decimal_places \in DecimalPlaces :
          /\ call' = [fn |-> "variable2aseg_gdf_format",
                      decimal_places |-> decimal_places]
          /\ ret' = variable2aseg_gdf_format(array_variable, decimal_places)
          /\ results' = Kept(decimal_places,
                    variable2aseg_gdf_format(array_variable, decimal_places))
          /\ array_variable' =
                IF variable2aseg_gdf_format(array_variable,
                                            decimal_places).status = "return"
                THEN [array_variable EXCEPT !.attr =
                         PyStr(variable2aseg_gdf_format(array_variable,
                                   decimal_places).value.aseg_gdf_format)]
                ELSE array_variable
    /\ UNCHANGED <<sigFigs, specifier>>

Variable2FormatCall ==
    /\ call = Idle
    /\ \E decimal_places \in DecimalPlaces :
          /\ call' = [fn |-> "variable2aseg_gdf_format",
                      decimal_places |-> decimal_places]
          /\ ret' = variable2aseg_gdf_format(array_variable, decimal_places)
          /\ results' = Kept(decimal_places,
                    variable2aseg_gdf_format(array_variable, decimal_places))
    /\ UNCHANGED <<sigFigs, specifier, array_variable>>

FixCall ==
    /\ call = Idle
    /\ \E current_dtype \in CurrentDtypes(array_variable),
          fractional_digits \in 0..MaxFractionalDigits,
          fill_value \in {PyNone} \cup FillsOf(array_variable.dtype) :
          /\ call' = [fn |-> "fix_field_precision",
                      current_dtype |-> current_dtype,
                      fractional_digits |-> fractional_digits,
                      fill_value |-> fill_value]
          /\ ret' = fix_field_precision(array_variable, current_dtype,
                                        fractional_digits, fill_value)
    /\ UNCHANGED <<sigFigs, specifier, array_variable, results>>

\* the call has returned or raised, and the caller goes on
Return ==
    /\ call # Idle
    /\ call' = Idle
    /\ ret' = PyNone
    /\ UNCHANGED <<sigFigs, specifier, array_variable, results>>

(***************************************************************************)
(* Specifications                                                          *)
(***************************************************************************)
NotCalled == [calls |-> 0, outcome |-> PyNone]

InitTables ==
    /\ sigFigs = SIG_FIGS
    /\ call = Idle
    /\ ret = PyNone
    /\ results = [decimal_places \in DecimalPlaces |-> NotCalled]

\* the parser applied to every format string
InitDecode ==
    /\ InitTables
    /\ specifier \in FormatStrings
    /\ array_variable = DefaultArray

SpecDecode == InitDecode /\ [][DecodeCall]_vars

\* the type resolver applied to every written descriptor
InitFormat2Dtype ==
    /\ InitTables
    /\ specifier \in DescriptorFormats
    /\ array_variable = DefaultArray

SpecFormat2Dtype == InitFormat2Dtype /\ [][Format2DtypeCall]_vars

(***************************************************************************)
(* The grammar [columns]letter digits[.digits], stated without the regex   *)
(***************************************************************************)
WellFormed(s) ==
    LET k  == DigitRun(s, 1)
        n3 == DigitRun(s, k + 2)
        e3 == k + 1 + n3
    IN  /\ k + 2 <= Len(s)
        /\ s[k + 1] \in Letters
        /\ n3 >= 1
        /\ \/ e3 = Len(s)
           \/ /\ e3 + 2 <= Len(s)
              /\ s[e3 + 1] = "."
              /\ e3 + 1 + DigitRun(s, e3 + 2) = Len(s)

\* no prefix of s is a well-formed specifier
Malformed(s) == \A n \in 0..Len(s) : ~WellFormed(SubSeq(s, 1, n))

Decoded == decode_aseg_gdf_format(specifier).value

IsDecoded == decode_aseg_gdf_format(specifier).status = "return"

(***************************************************************************)
(* Claims on decode_aseg_gdf_format                                        *)
(***************************************************************************)
\* C7: decoding a well-formed specifier returns columns as the integer value
\* of the leading digit run (the integer 1 when absent), the type letter in
\* upper case, and integer_digits / fractional_digits as the integer values
\* of the digit runs after the letter and after the '.' (0 without a '.').
C7_DecodeReturnsIntegerFields ==
    (call.fn = "decode_aseg_gdf_format" /\ WellFormed(specifier)) =>
        LET k  == DigitRun(specifier, 1)
            n3 == DigitRun(specifier, k + 2)
            e3 == k + 1 + n3
        IN  /\ ret.status = "return"
            /\ ret.value.columns.t = "int"
            /\ ret.value.columns.v =
                   (IF k = 0 THEN 1 ELSE StrToInt(SubSeq(specifier, 1, k)))
            /\ ret.value.aseg_dtype_code = Upper(specifier[k + 1])
            /\ ret.value.integer_digits =
                   StrToInt(SubSeq(specifier, k + 2, e3))
            /\ ret.value.fractional_digits =
                   (IF e3 = Len(specifier) THEN 0
                    ELSE StrToInt(SubSeq(specifier, e3 + 2, Len(specifier))))

\* C8: decoding fails, returning no descriptor, for every string that is
\* empty or does not match the grammar (no type letter, or no integer-digit
\* run after the letter).
C8_MalformedSpecifierRaises ==
    (call.fn = "decode_aseg_gdf_format" /\ Malformed(specifier)) =>
        ret.status = "raise"

(***************************************************************************)
(* Claims on aseg_gdf_format2dtype                                         *)
(***************************************************************************)
IsFloatCode(c) == c \in {"F", "D", "E"}

\* C1: the resolver returns the smallest qualifying kind: for an Integer
\* specifier without fractional digits and at most 19 integer digits the
\* first of int8(2), int16(4), int32(10), int64(19) with capacity >=
\* integer_digits; for a float specifier with at most 20 digits in all the
\* first of float32(7), float64(20) with capacity >= the digits in all.
C1_SmallestQualifyingKind ==
    (call.fn = "aseg_gdf_format2dtype" /\ IsDecoded) =>
        LET id == Decoded.integer_digits
            fd == Decoded.fractional_digits
        IN  /\ (Decoded.aseg_dtype_code = "I" /\ fd = 0 /\ id <= 19) =>
                  /\ ret.status = "return"
                  /\ ret.value.dtype =
                         (IF id <= 2 THEN "int8"
                          ELSE IF id <= 4 THEN "int16"
                          ELSE IF id <= 10 THEN "int32"
                          ELSE "int64")
            /\ (IsFloatCode(Decoded.aseg_dtype_code) /\ id + fd <= 20) =>
                  /\ ret.status = "return"
                  /\ ret.value.dtype =
                         (IF id + fd <= 7 THEN "float32" ELSE "float64")

\* C9: the resolver fails for every invalid descriptor: fractional digits on
\* an Integer or String code, more than 19 integer digits on an Integer code,
\* more than 20 digits in all on a float code, and any code other than
\* I, F, D, E, A; a String code without fractional digits yields the String
\* kind with width integer_digits.
C9_InvalidDescriptorsFail ==
    (call.fn = "aseg_gdf_format2dtype" /\ IsDecoded) =>
        LET code == Decoded.aseg_dtype_code
            id   == Decoded.integer_digits
            fd   == Decoded.fractional_digits
        IN  /\ (code = "I" /\ fd > 0) =>
                  /\ ret.status = "raise"
                  /\ ret.msg =
                       "Integer format cannot be defined with fractional digits"
            /\ (code = "A" /\ fd > 0) =>
                  /\ ret.status = "raise"
                  /\ ret.msg =
                       "String format cannot be defined with fractional digits"
            /\ (code = "I" /\ fd = 0 /\ id > 19) =>
                  /\ ret.status = "raise"
                  /\ ret.msg = "Invalid integer length"
            /\ (IsFloatCode(code) /\ id + fd > 20) =>
                  /\ ret.status = "raise"
                  /\ ret.msg = "Invalid floating point format"
            /\ (code \notin {"I", "F", "D", "E", "A"}) =>
                  /\ ret.status = "raise"
                  /\ ret.msg = "Unhandled ASEG-GDF dtype code"
            /\ (code = "A" /\ fd = 0) =>
                  /\ ret.status = "return"
                  /\ ret.value.dtype = "str"
                  /\ ret.value.integer_digits = id

\* a String specifier with fractional digits has been refused
C9_Witness ==
    /\ call.fn = "aseg_gdf_format2dtype"
    /\ IsDecoded
    /\ Decoded.aseg_dtype_code = "A"
    /\ Decoded.fractional_digits > 0
    /\ ret.status = "raise"
    /\ ret.exc = "AssertionError"

\* the synthesizer and the reducer applied to every array
InitArrays ==
    /\ InitTables
    /\ specifier = <<>>
    /\ array_variable \in Arrays

\* the synthesizer applied to every variable
InitVariables ==
    /\ InitTables
    /\ specifier = <<>>
    /\ array_variable \in ArrayVariables

SpecVariable2Format == InitVariables /\ [][Variable2FormatCall]_vars

SpecFix == InitArrays /\ [][FixCall]_vars

(***************************************************************************)
(* Claims on fix_field_precision                                           *)
(***************************************************************************)
IsFix == call.fn = "fix_field_precision"

Replaced == IsFix /\ ret.status = "return" /\ ret.value.t = "tuple"

\* the fill value the reducer works with: the masked array's own, else the
\* caller's
GivenFill ==
    IF array_variable.masked THEN array_variable.fill_value ELSE call.fill_value

\* element i of the array narrowed to dtype
Narrowed(i, dtype) ==
    astype(array_variable.data[i], array_variable.dtype, dtype)

\* |x - y| < 10^-f: for integers, x = y; for quarters, |x - y| * 10^f < 4
WithinPrecision(x, y, f) ==
    IF array_variable.dtype \in IntDtypes THEN x = y
    ELSE Abs(x - y) * Pow10(f) < 4

RoundTrips(dtype, f) ==
    \A i \in 1..Len(array_variable.data) :
        WithinPrecision(array_variable.data[i], Narrowed(i, dtype), f)

Width(dtype) ==
    CASE dtype = "int8" -> 8
      [] dtype = "int16" -> 16
      [] dtype \in {"int32", "float32"} -> 32
      [] dtype \in {"int64", "float64"} -> 64
      [] OTHER -> 0

SameFamily(d, e) ==
    \/ d \in IntDtypes /\ e \in IntDtypes
    \/ d \in FloatDtypes /\ e \in FloatDtypes

IsNoData(i) ==
    \/ GivenFill.t # "None"
       /\ EqualsFill(array_variable.data[i], GivenFill, array_variable.dtype)
    \/ array_variable.masked /\ array_variable.mask[i]

\* C3: fill-value non-collision: whenever the reducer returns a replacement
\* together with a fill value, that fill value equals no element of the
\* narrowed array outside the no-data mask.
C3_FillValueNonCollision ==
    (Replaced /\ ret.value.fill_value.t # "None") =>
        \A i \in 1..Len(array_variable.data) :
            IsNoData(i) \/
            ~EqualsFill(Narrowed(i, ret.value.spec.dtype), ret.value.fill_value,
                        array_variable.dtype)

IsScenario(data) ==
    /\ IsFix
    /\ array_variable.dtype = "int64"
    /\ array_variable.data = data
    /\ ~array_variable.masked
    /\ call.current_dtype = "int64"
    /\ call.fractional_digits = 0
    /\ call.fill_value.t = "None"

\* C5: on the int64 array [100000, 200000] with fractional_digits 0 and no
\* fill value the reducer returns a replacement of kind int32, int8 and int16
\* being rejected because the wrapped values differ; on the int64 array
\* [3000000000] every narrower kind is rejected and it returns no replacement.
C5_Int64Scenarios ==
    /\ IsScenario(<<W(100000), W(200000)>>) =>
          /\ Replaced
          /\ ret.value.spec.dtype = "int32"
          /\ ~RoundTrips("int8", 0)
          /\ ~RoundTrips("int16", 0)
    /\ IsScenario(<<Wide(45776, 24064)>>) =>
          /\ ret.status = "return"
          /\ ret.value.t = "None"
          /\ \A k \in {"int8", "int16", "int32"} : ~RoundTrips(k, 0)

\* the reducer has answered on [3000000000]
C5_Witness ==
    /\ IsScenario(<<Wide(45776, 24064)>>)
    /\ ret.status = "return"

\* C6: the reducer never raises: for every non-empty 1-D or 2-D array, every
\* current_dtype, every fractional_digits and every optional fill value the
\* call yields a replacement or no replacement.
C6_ReducerNeverRaises ==
    (IsFix /\ Len(array_variable.shape) \in {1, 2}) => ret.status = "return"

(***************************************************************************)
(* Claims on variable2aseg_gdf_format                                      *)
(***************************************************************************)
IsVariable2Format == call.fn = "variable2aseg_gdf_format"

\* C10: the lookup from kind to type code is total on the supported kinds
\* (each of int8, int16, int32, int64 gives 'I', float32 'F', float64 'D'), so
\* the synthesizer never refuses a 1-D or 2-D array of those kinds for its
\* kind, and the specifier it returns for an integer array is an 'I' one.
C10_KindToCodeTotal ==
    (/\ IsVariable2Format
     /\ array_variable.dtype \in IntDtypes \cup FloatDtypes
     /\ Len(array_variable.shape) \in {1, 2}) =>
        /\ ~(ret.status = "raise" /\ ret.exc = "AssertionError")
        /\ (ret.status = "return" /\ array_variable.dtype \in IntDtypes) =>
               \E i \in 1..Len(ret.value.aseg_gdf_format) :
                   ret.value.aseg_gdf_format[i] = "I"

\* the array's maximum absolute value, as a number
Magnitude(x) ==
    IF array_variable.dtype \in IntDtypes
    THEN IF WIsNeg(x) THEN WNeg(x) ELSE x
    ELSE Abs(x)

MaxAbs ==
    np_nanmax([i \in 1..Len(array_variable.data) |->
                  Magnitude(array_variable.data[i])], array_variable.dtype)

MaxAbsIsZero ==
    IF array_variable.dtype \in IntDtypes THEN MaxAbs = W(0) ELSE MaxAbs = 0

RECURSIVE WPow10(_)
WPow10(d) == IF d <= 0 THEN W(1) ELSE WTimes10(WPow10(d - 1))

\* d = ceil(log10(MaxAbs + 1)) for MaxAbs > 0: 10^(d-1) < MaxAbs + 1 <= 10^d
IsDigitCount(d) ==
    /\ d >= 1
    /\ IF array_variable.dtype \in IntDtypes
       THEN /\ WLess(WPow10(d - 1), WAdd(MaxAbs, W(1)))
            /\ ~WLess(WPow10(d), WAdd(MaxAbs, W(1)))
       ELSE \* in quarters: 10^(d-1) < ceil((MaxAbs + 4) / 4) <= 10^d
            /\ Pow10(d - 1) < (MaxAbs + 7) \div 4
            /\ (MaxAbs + 7) \div 4 <= Pow10(d)

IsNumeric == array_variable.dtype \in IntDtypes \cup FloatDtypes

Synthesized == IsVariable2Format /\ ret.status = "return"

\* C11: the synthesizer returns integer_digits = ceil(log10(max_abs + 1)),
\* the number of decimal digits of the array's maximum absolute value, when
\* max_abs > 0 (1 for 9, 2 for 10, 2 for 99, 3 for 100), and
\* integer_digits = 1 for an all-zero array.
C11_IntegerDigits ==
    (Synthesized /\ IsNumeric) =>
        IF MaxAbsIsZero THEN ret.value.integer_digits = 1
        ELSE IsDigitCount(ret.value.integer_digits)

IsFloatArray == array_variable.dtype \in FloatDtypes

\* significant figures of the two float kinds, plus one
FloatSigFigs == IF array_variable.dtype = "float32" THEN 7 + 1 ELSE 20 + 1

\* the specifier the array carries, parsed
Declared == decode_aseg_gdf_format(array_variable.attr.v)

DeclaredFractionalDigits == Declared.value.fractional_digits

\* C12: for a float array the synthesizer resolves fractional_digits by
\* strict precedence, sig_figs being the table entry of the kind plus one:
\* (a) with a decimal-places hint, min(hint, sig_figs - integer_digits),
\* whatever specifier the array carries; (b) else with a declared specifier,
\* min(its parsed fractional digits, sig_figs - integer_digits + 1); (c) else
\* sig_figs - integer_digits + 1.  The float64 array [1.23, -4.5, 100.0]
\* (here [1.25, -4.5, 100.0]) with no hints gets 3 and 19.
C12_FractionalDigitsPrecedence ==
    (IsVariable2Format /\ IsFloatArray) =>
        /\ call.decimal_places.t # "None" =>
              /\ ret.status = "return"
              /\ ret.value.fractional_digits =
                     Min(call.decimal_places.v,
                         FloatSigFigs - ret.value.integer_digits)
        /\ (ret.status = "return" /\ call.decimal_places.t = "None") =>
              ret.value.fractional_digits =
                  IF array_variable.attr.t # "None"
                  THEN Min(DeclaredFractionalDigits,
                           FloatSigFigs - ret.value.integer_digits + 1)
                  ELSE FloatSigFigs - ret.value.integer_digits + 1
        /\ (/\ array_variable.dtype = "float64"
            /\ array_variable.data = <<5, 0 - 18, 400>>
            /\ array_variable.attr.t = "None"
            /\ call.decimal_places.t = "None") =>
              /\ ret.status = "return"
              /\ ret.value.integer_digits = 3
              /\ ret.value.fractional_digits = 19

\* a hint of one decimal place prevailed over a declared specifier of four
C12_Witness ==
    /\ Synthesized
    /\ IsFloatArray
    /\ array_variable.attr.t # "None"
    /\ Declared.status = "return"
    /\ DeclaredFractionalDigits = 4
    /\ call.decimal_places = PyInt(1)
    /\ ret.value.fractional_digits = 1

IsTextArray == array_variable.dtype \in TextDtypes

\* C13: for an array of text kind the synthesizer completes and returns a
\* spec whose integer_digits is the width of the declared specifier when the
\* array has one and 40 otherwise, with fractional_digits 0, an 'A'
\* specifier and the left-justified fixed-width template '{:<width>s}'.
C13_TextArraysSynthesized ==
    (IsVariable2Format /\ IsTextArray) =>
        /\ ret.status = "return"
        /\ ret.value.integer_digits =
               (IF array_variable.attr.t # "None"
                THEN Declared.value.integer_digits ELSE 40)
        /\ ret.value.fractional_digits = 0
        /\ ret.value.aseg_gdf_format =
               <<"A">> \o IntToStr(ret.value.integer_digits)
        /\ ret.value.python_format =
               StringTemplate(ret.value.integer_digits)

\* the specifier written again from parsed fields, as lines 159, 174 and 190
\* write it
Reformatted(d) ==
    ColumnPrefix(IF d.columns.t = "int" THEN d.columns.v
                 ELSE StrToInt(d.columns.v))
    \o <<d.aseg_dtype_code>> \o IntToStr(d.integer_digits)
    \o (IF d.aseg_dtype_code = "I" THEN <<>>
        ELSE <<".">> \o IntToStr(d.fractional_digits))

\* C14: round trip between synthesizer and parser / resolver: for every
\* specifier s the synthesizer returns for a 1-D or 2-D integer or float
\* array, parsing s succeeds and yields the columns, integer_digits and
\* fractional_digits returned alongside s, resolving s to a kind succeeds,
\* and re-formatting the parsed fields gives s again.
C14_SynthesizeParseRoundTrip ==
    (Synthesized /\ IsNumeric) =>
        /\ decode_aseg_gdf_format(ret.value.aseg_gdf_format).status = "return"
        /\ decode_aseg_gdf_format(ret.value.aseg_gdf_format).value.columns
               = PyInt(ret.value.columns)
        /\ decode_aseg_gdf_format(ret.value.aseg_gdf_format).value.integer_digits
               = ret.value.integer_digits
        /\ decode_aseg_gdf_format(ret.value.aseg_gdf_format).value.fractional_digits
               = ret.value.fractional_digits
        /\ aseg_gdf_format2dtype(ret.value.aseg_gdf_format).status = "return"
        /\ Reformatted(decode_aseg_gdf_format(ret.value.aseg_gdf_format).value)
               = ret.value.aseg_gdf_format

(***************************************************************************)
(* A caller that calls the four functions any number of times in any order *)
(***************************************************************************)
InitCodec ==
    /\ InitTables
    /\ specifier \in CodecFormats
    /\ array_variable \in CodecArrays

NextCodec ==
    \/ DecodeCall
    \/ Format2DtypeCall
    \/ Variable2FormatCall
    \/ FixCall
    \/ Return

SpecCodec == InitCodec /\ [][NextCodec]_vars

FillUnderOwnMask ==
    TruncateFill(array_variable, array_variable.mask,
        IF AnyMasked(array_variable.mask)
        THEN reduced_precision_fill_value(array_variable, array_variable.mask)
        ELSE array_variable.fill_value,
        ret.value.spec.integer_digits, ret.value.spec.fractional_digits)

\* C16: for a masked array the reducer reconciles the fill value with the
\* array's own mask and the array's own fill value, whatever fill value the
\* caller passes; the mask 'value == fill_value' is used only for an array
\* that is not masked.  So exactly the masked positions are treated as
\* no-data, also when they hold values other than the fill value.
C16_MaskedArrayOwnMask ==
    (/\ Replaced
     /\ array_variable.masked
     /\ ~FillIsAmbiguous(array_variable, array_variable.mask)) =>
        ret.value.fill_value = FillUnderOwnMask

\* C17: every spec the synthesizer returns, and so every replacement spec
\* the reducer returns, has fractional_digits >= 0, and 0 for an integer
\* kind, for every array, declared specifier and decimal_places >= 0, also
\* when a float array's integer_digits exceeds the capacity of its kind + 1.
C17_FractionalDigitsNonNegative ==
    /\ Synthesized =>
          /\ ret.value.fractional_digits >= 0
          /\ ret.value.dtype \in IntDtypes => ret.value.fractional_digits = 0
    /\ Replaced =>
          /\ ret.value.spec.fractional_digits >= 0
          /\ ret.value.spec.dtype \in IntDtypes =>
                 ret.value.spec.fractional_digits = 0

\* the number of digits before the point when x is written in full
RECURSIVE WDigits(_, _)
WDigits(m, d) == IF WLess(m, WPow10(d)) THEN d ELSE WDigits(m, d + 1)

IntegerPartDigits(x) ==
    IF array_variable.dtype \in IntDtypes THEN WDigits(Magnitude(x), 1)
    ELSE Len(NatToStr(Magnitude(x) \div 4))

\* the characters x takes at the least when written with f decimal places:
\* a sign if negative, the integer part, and the point with its decimals
RenderedLength(x, f) ==
    (IF IsNegative(x, array_variable.dtype) THEN 1 ELSE 0)
    + IntegerPartDigits(x)
    + (IF f > 0 THEN f + 1 ELSE 0)

SomeNegative ==
    \E i \in 1..Len(array_variable.data) :
        IsNegative(array_variable.data[i], array_variable.dtype)

\* the field width the claim gives
FieldWidth ==
    (IF SomeNegative THEN 1 ELSE 0) + ret.value.integer_digits
    + (IF IsFloatArray THEN ret.value.fractional_digits + 1 ELSE 0)

\* C18: the display template the synthesizer returns has field width
\* sign_width + integer_digits for an integer array and sign_width +
\* integer_digits + fractional_digits + 1 for a float array, with
\* fractional_digits decimal places, sign_width being 1 if and only if some
\* value is negative; so the width is enough to render every value of the
\* array, sign included.
C18_TemplateWidth ==
    (Synthesized /\ IsNumeric) =>
        /\ ret.value.python_format =
               NumberTemplate(FieldWidth, ret.value.fractional_digits)
        /\ \A i \in 1..Len(array_variable.data) :
               FieldWidth >= RenderedLength(array_variable.data[i],
                                            ret.value.fractional_digits)

\* the no-data mask and the reconciled fill value of lines 229-263
NoDataMask == no_data_mask_of(array_variable, GivenFill)

ReconciledFill ==
    IF AnyMasked(NoDataMask)
    THEN reduced_precision_fill_value(array_variable, NoDataMask)
    ELSE GivenFill

\* truncation to integer_digits.fractional_digits of the returned spec
CannotTruncate ==
    TruncationFails(ReconciledFill, ret.value.spec.integer_digits,
                    ret.value.spec.fractional_digits)

Truncated ==
    truncated_fill_value(ReconciledFill, ret.value.spec.integer_digits,
                         ret.value.spec.fractional_digits)

TruncatedCollides == EqualsUnmasked(array_variable, NoDataMask, Truncated)

\* C19: truncation of the fill value is a no-op on failure: when the
\* truncated value equals a non-masked data value, or cannot be computed
\* (the text of an integer fill value has no decimal point), the reducer
\* still returns the replacement, with the untruncated reconciled fill
\* value, and no error reaches the caller; when truncation succeeds without
\* collision the returned fill value is the truncated one.
C19_TruncationNoOpOnFailure ==
    (Replaced /\ GivenFill.t # "None") =>
        /\ ReconciledFill.t = "int" => CannotTruncate
        /\ ret.value.fill_value =
               IF CannotTruncate THEN ReconciledFill
               ELSE IF TruncatedCollides THEN ReconciledFill
               ELSE Truncated

\* a replacement came back with its fill value untruncated because the
\* truncated value equals a data value
C19_Witness ==
    /\ Replaced
    /\ GivenFill.t # "None"
    /\ ~CannotTruncate
    /\ TruncatedCollides
    /\ ret.value.fill_value = ReconciledFill
    /\ ret.value.fill_value # Truncated

====
